---------------------------- MODULE Spec2Model ----------------------------
(***************************************************************************)
(* Calculator & kitchen-conversion service (icewall905/Calculator-service). *)
(*                                                                         *)
(* Two files are modelled:                                                 *)
(*   Kitchen  src/custom_components/calc_service/__init__.py               *)
(*   Basic    src/__init__.py  (the earlier evaluator, no unit conversion) *)
(*                                                                         *)
(* Python values are records [k, n, d, s, name]: k is the Python type      *)
(* name; an int or float is the exact rational n/d (d = 1 for an int);     *)
(* d = 0 marks a number whose exact value the model does not track (an     *)
(* irrational function result, a magnitude beyond Limit); s holds the      *)
(* characters of a str; name the name of a builtin or of a math constant.  *)
(* Floats are therefore exact rationals, not IEEE doubles: rounding is not *)
(* modelled, and an untracked float counts as having a fractional part.    *)
(* Python strings that the code inspects character by character (the       *)
(* input text, unit names) are sequences of one-character strings.         *)
(***************************************************************************)
EXTENDS Integers, Sequences, FiniteSets, TLC

VARIABLES
    input,      \* the call under way: which function, in which file, on what
    outcome,    \* Pending, then what the function returned or raised
    slot,       \* hass.states["input_text.calculator_result"]
    hostLog     \* the host-visible effects of the handler, in order

vars == <<input, outcome, slot, hostLog>>

Kitchen == "custom_components/calc_service/__init__.py"
Basic == "__init__.py"
Modules == {Kitchen, Basic}

----------------------------------------------------------------------------
(* Bounds of the model.                                                    *)

\* Numerators and denominators are tracked up to this magnitude.
Limit == 100000000
\* Square roots are exact for squares of 0..RootRange.
RootRange == 100
\* A str repeated more often than this is no longer tracked.
MaxRepeat == 3
\* Fractional digits printed for a float that has no finite decimal form.
FloatDigits == 16
\* The integer literals of the generated syntax trees are 0..MaxLit.
MaxLit == 2

----------------------------------------------------------------------------
(* Python values.                                                          *)

Abs(x) == IF x < 0 THEN 0 - x ELSE x
Sign(x) == IF x < 0 THEN 0 - 1 ELSE IF x = 0 THEN 0 ELSE 1

RECURSIVE GCD(_, _)
GCD(a, b) == IF b = 0 THEN a ELSE GCD(b, a % b)

Fits(a, b) == a = 0 \/ b = 0 \/ Abs(a) <= Limit \div Abs(b)

Val(k, n, d, s, name) == [k |-> k, n |-> n, d |-> d, s |-> s, name |-> name]
NoValue == Val("", 0, 1, <<>>, "")
IntV(n) == Val("int", n, 1, <<>>, "")
StrV(s) == Val("str", 0, 1, s, "")
Builtin(f) == Val("builtin_function_or_method", 0, 1, <<>>, f)
Untracked(k) == Val(k, 0, 0, <<>>, "")
NamedFloat(c) == Val("float", 0, 0, <<>>, c)

\* The number n/d of type k in lowest terms (d # 0), untracked beyond Limit.
Rat(k, n, d) ==
    LET g == GCD(Abs(n), Abs(d))
        nn == Sign(d) * (n \div g)
        dd == Abs(d) \div g
    IN  IF Abs(nn) > Limit \/ dd > Limit \/ (k = "int" /\ dd # 1)
        THEN Untracked(k)
        ELSE Val(k, nn, dd, <<>>, "")
FloatV(n, d) == Rat("float", n, d)

IsReal(v) == v.k \in {"int", "float"}
IsNumber(v) == v.k \in {"int", "float", "complex"}
Tracked(v) == v.d # 0
IsZero(v) == Tracked(v) /\ v.n = 0

\* float.is_integer()
is_integer(v) == v.k = "float" /\ Tracked(v) /\ v.d = 1
\* int(float)
int(v) == IntV(v.n \div v.d)

----------------------------------------------------------------------------
(* Outcomes of a call: a returned value or a raised exception, with the    *)
(* trace of what was evaluated and invoked on the way.                     *)

Returned(v) == [raised |-> FALSE, value |-> v, kind |-> "", msg |-> "", trace |-> <<>>]
Raised(kind, msg) ==
    [raised |-> TRUE, value |-> NoValue, kind |-> kind, msg |-> msg, trace |-> <<>>]
Traced(o, tr) == [o EXCEPT !.trace = tr]

----------------------------------------------------------------------------
(* The functions of Python's operator module that OPS refers to, on the    *)
(* values above.  Each returns an outcome: these functions raise.          *)

ResKind(a, b) ==
    IF a.k = "complex" \/ b.k = "complex" THEN "complex"
    ELSE IF a.k = "float" \/ b.k = "float" THEN "float" ELSE "int"

AsFloat(a) == IF a.k = "int" THEN [a EXCEPT !.k = "float"] ELSE a

NumNeg(a) == IF Tracked(a) THEN Val(a.k, 0 - a.n, a.d, <<>>, "") ELSE Untracked(a.k)

NumAdd(a, b) ==
    LET K == ResKind(a, b)
    IN  IF K = "complex" \/ ~Tracked(a) \/ ~Tracked(b) THEN Untracked(K)
        ELSE IF Fits(a.n, b.d) /\ Fits(b.n, a.d) /\ Fits(a.d, b.d)
        THEN Rat(K, a.n * b.d + b.n * a.d, a.d * b.d)
        ELSE Untracked(K)

NumMul(a, b) ==
    LET K == ResKind(a, b)
    IN  IF K = "complex" THEN Untracked(K)
        ELSE IF IsZero(a) \/ IsZero(b) THEN Rat(K, 0, 1)
        ELSE IF ~Tracked(a) \/ ~Tracked(b) THEN Untracked(K)
        ELSE LET g1 == GCD(Abs(a.n), b.d)
                 g2 == GCD(Abs(b.n), a.d)
                 n1 == a.n \div g1
                 n2 == b.n \div g2
                 d1 == a.d \div g2
                 d2 == b.d \div g1
             IN  IF Fits(n1, n2) /\ Fits(d1, d2)
                 THEN Rat(K, n1 * n2, d1 * d2)
                 ELSE Untracked(K)

\* 1/b as a float, for a tracked b # 0
NumRecip(b) == Val("float", Sign(b.n) * b.d, Abs(b.n), <<>>, "")

\* floor(a/b) for tracked reals, b # 0; Limit + 1 when the quotient is out of range
FloorQuot(a, b) ==
    IF Fits(a.n, b.d) /\ Fits(a.d, b.n)
    THEN (Sign(b.n) * a.n * b.d) \div (a.d * Abs(b.n))
    ELSE Limit + 1

Unsupported(sym, a, b) ==
    Raised("TypeError", "unsupported operand type(s) for " \o sym \o ": '"
                        \o a.k \o "' and '" \o b.k \o "'")

RECURSIVE Flatten(_)
\* ''.join(chars)
Flatten(chars) == IF chars = <<>> THEN "" ELSE Head(chars) \o Flatten(Tail(chars))

RECURSIVE Repeat(_, _)
Repeat(s, n) == IF n <= 0 THEN <<>> ELSE s \o Repeat(s, n - 1)

op_add(a, b) ==
    IF IsNumber(a) /\ IsNumber(b) THEN Returned(NumAdd(a, b))
    ELSE IF a.k = "str" /\ b.k = "str"
    THEN Returned(IF Tracked(a) /\ Tracked(b) THEN StrV(a.s \o b.s) ELSE Untracked("str"))
    ELSE IF a.k = "str"
    THEN Raised("TypeError", "can only concatenate str (not \"" \o b.k \o "\") to str")
    ELSE Unsupported("+", a, b)

op_sub(a, b) ==
    IF IsNumber(a) /\ IsNumber(b) THEN Returned(NumAdd(a, NumNeg(b)))
    ELSE Unsupported("-", a, b)

StrTimes(s, n) ==
    IF n.k # "int"
    THEN Raised("TypeError", "can't multiply sequence by non-int of type '" \o n.k \o "'")
    ELSE IF Tracked(n) /\ n.n <= 0 THEN Returned(StrV(<<>>))
    ELSE IF Tracked(n) /\ Tracked(s) /\ n.n <= MaxRepeat THEN Returned(StrV(Repeat(s.s, n.n)))
    ELSE Returned(Untracked("str"))

op_mul(a, b) ==
    IF IsNumber(a) /\ IsNumber(b) THEN Returned(NumMul(a, b))
    ELSE IF a.k = "str" THEN StrTimes(a, b)
    ELSE IF b.k = "str" THEN StrTimes(b, a)
    ELSE Unsupported("*", a, b)

op_truediv(a, b) ==
    IF ~(IsNumber(a) /\ IsNumber(b)) THEN Unsupported("/", a, b)
    ELSE IF IsZero(b)
    THEN Raised("ZeroDivisionError",
                IF ResKind(a, b) = "complex" THEN "complex division by zero"
                ELSE IF ResKind(a, b) = "float" THEN "float division by zero"
                ELSE "division by zero")
    ELSE IF ResKind(a, b) = "complex" THEN Returned(Untracked("complex"))
    ELSE IF ~Tracked(b) THEN Returned(Untracked("float"))
    ELSE Returned(NumMul(AsFloat(a), NumRecip(b)))

op_mod(a, b) ==
    IF a.k = "str"
    THEN Raised("TypeError", "not all arguments converted during string formatting")
    ELSE IF ~(IsReal(a) /\ IsReal(b)) THEN Unsupported("%", a, b)
    ELSE IF IsZero(b)
    THEN Raised("ZeroDivisionError",
                IF ResKind(a, b) = "float" THEN "float modulo" ELSE "integer modulo by zero")
    ELSE IF ~Tracked(a) \/ ~Tracked(b) \/ FloorQuot(a, b) > Limit
    THEN Returned(Untracked(ResKind(a, b)))
    ELSE Returned(NumAdd(a, NumNeg(NumMul(b, IntV(FloorQuot(a, b))))))

RECURSIVE PowAcc(_, _, _)
PowAcc(acc, a, e) ==
    IF e = 0 \/ ~Tracked(acc) THEN acc ELSE PowAcc(NumMul(acc, a), a, e - 1)

\* a ** e for a real a and a natural e, by repeated multiplication
NatPow(a, e) ==
    IF e = 0 THEN Rat(a.k, 1, 1)
    ELSE IF ~Tracked(a) THEN (IF e = 1 THEN a ELSE Untracked(a.k))
    ELSE IF a.d = 1 /\ Abs(a.n) <= 1
    THEN (IF a.n = 0 - 1 /\ e % 2 = 0 THEN Rat(a.k, 1, 1) ELSE a)
    ELSE PowAcc(a, a, e - 1)

IsSquare(n) == \E r \in 0..RootRange : r * r = n
Root(n) == CHOOSE r \in 0..RootRange : r * r = n

op_pow(a, b) ==
    IF ~(IsNumber(a) /\ IsNumber(b)) THEN Unsupported("** or pow()", a, b)
    ELSE IF ResKind(a, b) = "complex" THEN Returned(Untracked("complex"))
    ELSE IF ~Tracked(b)
    THEN Returned(IF b.k = "float" /\ Tracked(a) /\ a.n < 0 THEN Untracked("complex")
                  ELSE Untracked(ResKind(a, b)))
    ELSE IF b.d = 1 /\ b.n >= 0 THEN Returned(NatPow(IF b.k = "float" THEN AsFloat(a) ELSE a, b.n))
    ELSE IF IsZero(a)
    THEN (IF b.n < 0 THEN Raised("ZeroDivisionError", "0.0 cannot be raised to a negative power")
          ELSE Returned(FloatV(0, 1)))
    ELSE IF b.d = 1
    THEN (LET p == NatPow(a, 0 - b.n)
          IN  Returned(IF Tracked(p) THEN NumRecip(p) ELSE Untracked("float")))
    ELSE IF ~Tracked(a) THEN Returned(Untracked("float"))
    ELSE IF a.n < 0 THEN Returned(Untracked("complex"))
    ELSE IF b.d = 2 /\ IsSquare(a.n) /\ IsSquare(a.d)
    THEN (LET p == NatPow(FloatV(Root(a.n), Root(a.d)), Abs(b.n))
          IN  Returned(IF b.n > 0 THEN p
                       ELSE IF Tracked(p) THEN NumRecip(p) ELSE Untracked("float")))
    ELSE Returned(Untracked("float"))

op_neg(a) ==
    IF IsNumber(a) THEN Returned(NumNeg(a))
    ELSE Raised("TypeError", "bad operand type for unary -: '" \o a.k \o "'")


----------------------------------------------------------------------------
(* Kitchen units.  236.588 = 59147/250, 29.5735 = 59147/2000,              *)
(* 28.3495 = 56699/2000, 453.592 = 56699/125.  "U+2011" stands for the     *)
(* one character NON-BREAKING HYPHEN of the key "fl-oz".                   *)

VOL_ML ==
    (<<"m", "l">> :> IntV(1))
    @@ (<<"m", "i", "l", "l", "i", "l", "i", "t", "e", "r">> :> IntV(1))
    @@ (<<"m", "i", "l", "l", "i", "l", "i", "t", "e", "r", "s">> :> IntV(1))
    @@ (<<"l">> :> IntV(1000))
    @@ (<<"l", "i", "t", "e", "r">> :> IntV(1000))
    @@ (<<"l", "i", "t", "e", "r", "s">> :> IntV(1000))
    @@ (<<"c", "u", "p">> :> FloatV(59147, 250))
    @@ (<<"c", "u", "p", "s">> :> FloatV(59147, 250))
    @@ (<<"t", "b", "s", "p">> :> IntV(15))
    @@ (<<"t", "a", "b", "l", "e", "s", "p", "o", "o", "n">> :> IntV(15))
    @@ (<<"t", "a", "b", "l", "e", "s", "p", "o", "o", "n", "s">> :> IntV(15))
    @@ (<<"t", "s", "p">> :> IntV(5))
    @@ (<<"t", "e", "a", "s", "p", "o", "o", "n">> :> IntV(5))
    @@ (<<"t", "e", "a", "s", "p", "o", "o", "n", "s">> :> IntV(5))
    @@ (<<"f", "l", "_", "o", "z">> :> FloatV(59147, 2000))
    @@ (<<"f", "l", "o", "z">> :> FloatV(59147, 2000))
    @@ (<<"f", "l", "U+2011", "o", "z">> :> FloatV(59147, 2000))
    @@ (<<"f", "l", "u", "i", "d", "o", "u", "n", "c", "e">> :> FloatV(59147, 2000))

MASS_G ==
    (<<"g">> :> IntV(1))
    @@ (<<"g", "r", "a", "m">> :> IntV(1))
    @@ (<<"g", "r", "a", "m", "s">> :> IntV(1))
    @@ (<<"k", "g">> :> IntV(1000))
    @@ (<<"k", "i", "l", "o", "g", "r", "a", "m">> :> IntV(1000))
    @@ (<<"k", "i", "l", "o", "g", "r", "a", "m", "s">> :> IntV(1000))
    @@ (<<"o", "z">> :> FloatV(56699, 2000))
    @@ (<<"o", "u", "n", "c", "e">> :> FloatV(56699, 2000))
    @@ (<<"o", "u", "n", "c", "e", "s">> :> FloatV(56699, 2000))
    @@ (<<"l", "b">> :> FloatV(56699, 125))
    @@ (<<"l", "b", "s">> :> FloatV(56699, 125))
    @@ (<<"p", "o", "u", "n", "d">> :> FloatV(56699, 125))
    @@ (<<"p", "o", "u", "n", "d", "s">> :> FloatV(56699, 125))

UpperCase == <<"A", "B", "C", "D", "E", "F", "G", "H", "I", "J", "K", "L", "M", "N", "O", "P", "Q", "R", "S", "T", "U", "V", "W", "X", "Y", "Z">>
LowerCase == <<"a", "b", "c", "d", "e", "f", "g", "h", "i", "j", "k", "l", "m", "n", "o", "p", "q", "r", "s", "t", "u", "v", "w", "x", "y", "z">>

\* str.lower(), character by character
lower(s) ==
    [i \in 1..Len(s) |->
        IF \E j \in 1..Len(UpperCase) : UpperCase[j] = s[i]
        THEN LowerCase[CHOOSE j \in 1..Len(UpperCase) : UpperCase[j] = s[i]]
        ELSE s[i]]

NoLower(v) == Raised("AttributeError", "'" \o v.k \o "' object has no attribute 'lower'")

\* val * TABLE[fu] / TABLE[tu]
Scale(val, f, t) ==
    LET m == op_mul(val, f)
    IN  IF m.raised THEN m ELSE op_truediv(m.value, t)

\* _convert that looks the unit names up as written, without .lower()
_convert_as_written(val, from_u, to_u) ==
    IF from_u.k # "str" THEN NoLower(from_u)
    ELSE IF to_u.k # "str" THEN NoLower(to_u)
    ELSE IF from_u.s \in DOMAIN VOL_ML /\ to_u.s \in DOMAIN VOL_ML
    THEN Scale(val, VOL_ML[from_u.s], VOL_ML[to_u.s])
    ELSE IF from_u.s \in DOMAIN MASS_G /\ to_u.s \in DOMAIN MASS_G
    THEN Scale(val, MASS_G[from_u.s], MASS_G[to_u.s])
    ELSE Raised("ValueError", "Can't convert '" \o Flatten(from_u.s)
                              \o "' to '" \o Flatten(to_u.s) \o "'")

_convert(val, from_u, to_u) ==
    IF from_u.k # "str" THEN NoLower(from_u)
    ELSE IF to_u.k # "str" THEN NoLower(to_u)
    ELSE LET fu == lower(from_u.s)
             tu == lower(to_u.s)
         IN  IF fu \in DOMAIN VOL_ML /\ tu \in DOMAIN VOL_ML
             THEN Scale(val, VOL_ML[fu], VOL_ML[tu])
             ELSE IF fu \in DOMAIN MASS_G /\ tu \in DOMAIN MASS_G
             THEN Scale(val, MASS_G[fu], MASS_G[tu])
             ELSE Raised("ValueError", "Can't convert '" \o Flatten(from_u.s)
                                       \o "' to '" \o Flatten(to_u.s) \o "'")


----------------------------------------------------------------------------
(* The math module, as far as MATH_FUNCS exposes it.  A result is exact    *)
(* where it is rational and the model can compute it, untracked otherwise; *)
(* an untracked argument is taken to lie in the function's domain.         *)

MathDomainError == Raised("ValueError", "math domain error")

RECURSIVE ExactLog(_, _)
\* k with b^k = n (n >= 1), or -1 when n is no power of b
ExactLog(b, n) ==
    IF n = 1 THEN 0
    ELSE IF n % b # 0 THEN 0 - 1
    ELSE LET r == ExactLog(b, n \div b) IN IF r < 0 THEN 0 - 1 ELSE r + 1

LogBase(b, x) ==
    IF x.d = 1 /\ ExactLog(b, x.n) >= 0 THEN FloatV(ExactLog(b, x.n), 1)
    ELSE IF x.n = 1 /\ ExactLog(b, x.d) >= 0 THEN FloatV(0 - ExactLog(b, x.d), 1)
    ELSE Untracked("float")

math_value(f, x) ==
    IF ~Tracked(x) THEN Returned(Untracked("float"))
    ELSE IF f = "sqrt"
    THEN (IF x.n < 0 THEN MathDomainError
          ELSE IF IsSquare(x.n) /\ IsSquare(x.d) THEN Returned(FloatV(Root(x.n), Root(x.d)))
          ELSE Returned(Untracked("float")))
    ELSE IF f \in {"log", "log10", "log2"}
    THEN (IF x.n <= 0 THEN MathDomainError
          ELSE IF f = "log2" THEN Returned(LogBase(2, x))
          ELSE IF f = "log10" THEN Returned(LogBase(10, x))
          ELSE Returned(IF x.n = x.d THEN FloatV(0, 1) ELSE Untracked("float")))
    ELSE IF f \in {"asin", "acos"}
    THEN (IF Abs(x.n) > x.d THEN MathDomainError
          ELSE IF f = "asin" /\ x.n = 0 THEN Returned(FloatV(0, 1))
          ELSE IF f = "acos" /\ x.n = x.d THEN Returned(FloatV(0, 1))
          ELSE Returned(Untracked("float")))
    ELSE IF f = "exp"
    THEN (IF x.n \div x.d >= 710 THEN Raised("OverflowError", "math range error")
          ELSE Returned(IF x.n = 0 THEN FloatV(1, 1) ELSE Untracked("float")))
    ELSE IF f = "cos" THEN Returned(IF x.n = 0 THEN FloatV(1, 1) ELSE Untracked("float"))
    ELSE Returned(IF x.n = 0 THEN FloatV(0, 1) ELSE Untracked("float"))

NotReal(v) == Raised("TypeError", "must be real number, not " \o v.k)

\* f(x) for one argument of any type
math_unary(f, x) == IF IsReal(x) THEN math_value(f, x) ELSE NotReal(x)

math_call(f, args) ==
    IF f = "log" /\ Len(args) \notin {1, 2}
    THEN Raised("TypeError", "math.log requires 1 to 2 arguments")
    ELSE IF f # "log" /\ Len(args) # 1
    THEN Raised("TypeError", "math." \o f \o "() takes exactly one argument ("
                             \o ToString(Len(args)) \o " given)")
    ELSE IF Len(args) = 1 THEN math_unary(f, args[1])
    ELSE LET num == math_unary("log", args[1])
             den == math_unary("log", args[2])
         IN  IF num.raised THEN num
             ELSE IF den.raised THEN den
             ELSE IF IsZero(den.value)
             THEN Raised("ZeroDivisionError", "float division by zero")
             ELSE Returned(IF IsZero(num.value) THEN FloatV(0, 1) ELSE Untracked("float"))

MathNames ==
    {"pi", "e", "tau", "sin", "cos", "tan", "asin", "acos", "atan",
     "sqrt", "log", "log10", "log2", "exp"}

\* {name: getattr(math, name)}
MATH ==
    [name \in MathNames |->
        IF name \in {"pi", "e", "tau"} THEN NamedFloat(name) ELSE Builtin(name)]

ConvertFunction == Val("function", 0, 1, <<>>, "_convert")

MATH_FUNCS == MATH @@ ("convert" :> ConvertFunction)

SymbolTable(m) == IF m = Kitchen THEN MATH_FUNCS ELSE MATH

OPS ==
    ("Add" :> "add") @@ ("Sub" :> "sub") @@ ("Mult" :> "mul") @@ ("Div" :> "truediv")
    @@ ("Pow" :> "pow") @@ ("Mod" :> "mod") @@ ("USub" :> "neg")

\* f(*args) for a function f of the operator module
operator_call(f, args) ==
    IF f = "neg"
    THEN (IF Len(args) = 1 THEN op_neg(args[1])
          ELSE Raised("TypeError", "neg expected 1 argument, got " \o ToString(Len(args))))
    ELSE IF Len(args) # 2
    THEN Raised("TypeError", f \o " expected 2 arguments, got " \o ToString(Len(args)))
    ELSE IF f = "add" THEN op_add(args[1], args[2])
    ELSE IF f = "sub" THEN op_sub(args[1], args[2])
    ELSE IF f = "mul" THEN op_mul(args[1], args[2])
    ELSE IF f = "truediv" THEN op_truediv(args[1], args[2])
    ELSE IF f = "pow" THEN op_pow(args[1], args[2])
    ELSE op_mod(args[1], args[2])

\* func(*args) for a value of the symbol table, or whatever else was looked up
call_value(fv, args) ==
    IF fv.k = "builtin_function_or_method" THEN math_call(fv.name, args)
    ELSE IF fv.k # "function"
    THEN Raised("TypeError", "'" \o fv.k \o "' object is not callable")
    ELSE IF Len(args) > 3
    THEN Raised("TypeError", "_convert() takes 3 positional arguments but "
                             \o ToString(Len(args)) \o " were given")
    ELSE IF Len(args) = 3 THEN _convert(args[1], args[2], args[3])
    ELSE Raised("TypeError",
                "_convert() missing " \o ToString(3 - Len(args)) \o " required positional argument"
                \o (IF Len(args) = 2 THEN ": 'to_u'"
                    ELSE IF Len(args) = 1 THEN "s: 'from_u' and 'to_u'"
                    ELSE "s: 'val', 'from_u', and 'to_u'"))


----------------------------------------------------------------------------
(* str(), repr() and ast.dump().                                           *)

RECURSIVE FracDigits(_, _, _)
\* the decimal digits of r/d (0 <= r < d), at most k of them
FracDigits(r, d, k) ==
    IF r = 0 \/ k = 0 THEN ""
    ELSE ToString((r * 10) \div d) \o FracDigits((r * 10) % d, d, k - 1)

FloatStr(v) ==
    (IF v.n < 0 THEN "-" ELSE "") \o ToString(Abs(v.n) \div v.d) \o "."
    \o (IF Abs(v.n) % v.d = 0 THEN "0" ELSE FracDigits(Abs(v.n) % v.d, v.d, FloatDigits))

ConstantStr ==
    ("pi" :> "3.141592653589793") @@ ("e" :> "2.718281828459045")
    @@ ("tau" :> "6.283185307179586")

\* str(v); "..." where the model does not track the text
Str(v) ==
    IF v.k = "str" THEN (IF Tracked(v) THEN Flatten(v.s) ELSE "...")
    ELSE IF v.k = "builtin_function_or_method" THEN "<built-in function " \o v.name \o ">"
    ELSE IF v.k = "function" THEN "<function " \o v.name \o " at 0x...>"
    ELSE IF v.name \in DOMAIN ConstantStr THEN ConstantStr[v.name]
    ELSE IF ~Tracked(v) THEN "..."
    ELSE IF v.k = "int" THEN ToString(v.n)
    ELSE FloatStr(v)

Repr(v) == IF v.k = "str" THEN "'" \o Str(v) \o "'" ELSE Str(v)

----------------------------------------------------------------------------
(* Syntax trees, as ast.parse(expr, mode="eval").body gives them.          *)
(* keywords of a Call are left out: _eval never looks at them.             *)

Constant(v) == [tag |-> "Constant", value |-> v]
Name(id) == [tag |-> "Name", id |-> id]
BinOp(left, op, right) == [tag |-> "BinOp", left |-> left, op |-> op, right |-> right]
UnaryOp(op, operand) == [tag |-> "UnaryOp", op |-> op, operand |-> operand]
Call(func, args) == [tag |-> "Call", func |-> func, args |-> args]
Attribute(value, attr) == [tag |-> "Attribute", value |-> value, attr |-> attr]
List(elts) == [tag |-> "List", elts |-> elts]
Compare(left, op, right) == [tag |-> "Compare", left |-> left, op |-> op, right |-> right]
NoNode == [tag |-> ""]

RECURSIVE dump(_), dump_list(_)
dump(node) ==
    IF node.tag = "Constant" THEN "Constant(value=" \o Repr(node.value) \o ")"
    ELSE IF node.tag = "Name" THEN "Name(id='" \o node.id \o "', ctx=Load())"
    ELSE IF node.tag = "BinOp"
    THEN "BinOp(left=" \o dump(node.left) \o ", op=" \o node.op \o "(), right="
         \o dump(node.right) \o ")"
    ELSE IF node.tag = "UnaryOp"
    THEN "UnaryOp(op=" \o node.op \o "(), operand=" \o dump(node.operand) \o ")"
    ELSE IF node.tag = "Call"
    THEN "Call(func=" \o dump(node.func) \o ", args=[" \o dump_list(node.args)
         \o "], keywords=[])"
    ELSE IF node.tag = "Attribute"
    THEN "Attribute(value=" \o dump(node.value) \o ", attr='" \o node.attr \o "', ctx=Load())"
    ELSE IF node.tag = "List" THEN "List(elts=[" \o dump_list(node.elts) \o "], ctx=Load())"
    ELSE "Compare(left=" \o dump(node.left) \o ", ops=[" \o node.op \o "()], comparators=["
         \o dump(node.right) \o "])"

dump_list(nodes) ==
    IF nodes = <<>> THEN ""
    ELSE dump(Head(nodes)) \o (IF Len(nodes) > 1 THEN ", " ELSE "") \o dump_list(Tail(nodes))

----------------------------------------------------------------------------
(* The evaluator.  The trace of an outcome lists, in order, every node     *)
(* _eval was entered for and every callable that was invoked.              *)

Enter(node) == [ev |-> "eval", node |-> node, f |-> "", args |-> <<>>]
Invoke(f, args) == [ev |-> "invoke", node |-> NoNode, f |-> f, args |-> args]

\* the name a callable value is invoked under
Callee(fv) ==
    IF fv.k = "builtin_function_or_method" THEN "math." \o fv.name
    ELSE IF fv.k = "function" THEN fv.name
    ELSE ""

\* raise NameError(...)
UnknownName(m, id) ==
    Raised("NameError", IF m = Kitchen THEN id ELSE "Use of name '" \o id \o "' is not allowed")

\* raise ValueError(f"Unsupported ...: {ast.dump(node)}")
UnsupportedNode(m, node) ==
    Raised("ValueError", (IF m = Kitchen THEN "Unsupported node: "
                          ELSE "Unsupported expression node: ") \o dump(node))

\* OPS[type(node.op)] when the class is no key of OPS
MissingOp(op) == Raised("KeyError", "<class 'ast." \o op \o "'>")

RECURSIVE _eval(_, _), eval_args(_, _, _)

\* [_eval(a) for a in node.args]: the values so far, or the first failure
eval_args(m, args, done) ==
    IF args = <<>> THEN done
    ELSE LET a == _eval(m, Head(args))
         IN  IF a.raised
             THEN [failed |-> TRUE, values |-> done.values, error |-> a,
                   trace |-> done.trace \o a.trace]
             ELSE eval_args(m, Tail(args),
                            [failed |-> FALSE, values |-> Append(done.values, a.value),
                             error |-> a, trace |-> done.trace \o a.trace])

NoArgs == [failed |-> FALSE, values |-> <<>>, error |-> Returned(NoValue), trace |-> <<>>]

\* the callable of OPS applied to operands that did not raise
Apply(op, values, tr) ==
    Traced(operator_call(OPS[op], values), tr \o <<Invoke("operator." \o OPS[op], values)>>)

\* OPS[type(node.op)](_eval(node.left), _eval(node.right))
eval_binop(m, node) ==
    LET here == <<Enter(node)>>
    IN  IF node.op \notin DOMAIN OPS THEN Traced(MissingOp(node.op), here)
        ELSE LET l == _eval(m, node.left)
             IN  IF l.raised THEN Traced(l, here \o l.trace)
                 ELSE LET r == _eval(m, node.right)
                      IN  IF r.raised THEN Traced(r, here \o l.trace \o r.trace)
                          ELSE Apply(node.op, <<l.value, r.value>>, here \o l.trace \o r.trace)

\* OPS[type(node.op)](_eval(node.operand))
eval_unaryop(m, node) ==
    LET here == <<Enter(node)>>
    IN  IF node.op \notin DOMAIN OPS THEN Traced(MissingOp(node.op), here)
        ELSE LET o == _eval(m, node.operand)
             IN  IF o.raised THEN Traced(o, here \o o.trace)
                 ELSE Apply(node.op, <<o.value>>, here \o o.trace)

\* the Name branch as `return MATH_FUNCS.get(node.id)`: None for an unknown name
eval_name_get(m, node) ==
    IF node.id \in DOMAIN SymbolTable(m)
    THEN Traced(Returned(SymbolTable(m)[node.id]), <<Enter(node)>>)
    ELSE Traced(Returned(Val("NoneType", 0, 1, <<>>, "")), <<Enter(node)>>)

eval_name(m, node) ==
    IF node.id \in DOMAIN SymbolTable(m)
    THEN Traced(Returned(SymbolTable(m)[node.id]), <<Enter(node)>>)
    ELSE Traced(UnknownName(m, node.id), <<Enter(node)>>)

\* func = _eval(node.func); args = [...]; func(*args)
eval_call(m, node) ==
    LET here == <<Enter(node)>>
        func == _eval(m, node.func)
    IN  IF func.raised THEN Traced(func, here \o func.trace)
        ELSE LET args == eval_args(m, node.args, NoArgs)
                 tr == here \o func.trace \o args.trace
             IN  IF args.failed THEN Traced(args.error, tr)
                 ELSE Traced(call_value(func.value, args.values),
                             IF Callee(func.value) = "" THEN tr
                             ELSE tr \o <<Invoke(Callee(func.value), args.values)>>)

\* _eval without its last line: the function falls off its end and returns None
eval_other_none(m, node) ==
    Traced(Returned(Val("NoneType", 0, 1, <<>>, "")), <<Enter(node)>>)

\* the last line of _eval: every node that is none of the above
eval_other(m, node) == Traced(UnsupportedNode(m, node), <<Enter(node)>>)

_eval(m, node) ==
    IF node.tag = "Constant" THEN Traced(Returned(node.value), <<Enter(node)>>)
    ELSE IF node.tag = "BinOp" THEN eval_binop(m, node)
    ELSE IF node.tag = "UnaryOp" THEN eval_unaryop(m, node)
    ELSE IF node.tag = "Name" THEN eval_name(m, node)
    ELSE IF node.tag = "Call" THEN eval_call(m, node)
    ELSE eval_other(m, node)


----------------------------------------------------------------------------
(* CONV_RE and the shorthand recognizer.  "U+2192" stands for the one      *)
(* character RIGHTWARDS ARROW.                                             *)

Range(s) == {s[i] : i \in 1..Len(s)}
Spaces == {" ", "\t", "\n"}
Digits == <<"0", "1", "2", "3", "4", "5", "6", "7", "8", "9">>
Letters == Range(UpperCase) \cup Range(LowerCase) \cup {"_"}

\* where the longest run of characters of C that starts at i ends (exclusive)
RunEnd(text, i, C) ==
    CHOOSE j \in i..(Len(text) + 1) :
        /\ \A k \in i..(j - 1) : text[k] \in C
        /\ (j = Len(text) + 1 \/ text[j] \notin C)

Slice(text, i, j) == SubSeq(text, i, j - 1)

\* (?:to|in|U+2192|>) at q: the position after it, or 0
Connector(text, q) ==
    IF q <= Len(text) /\ text[q] \in {">", "U+2192"} THEN q + 1
    ELSE IF q < Len(text) /\ <<text[q], text[q + 1]>> \in {<<"t", "o">>, <<"i", "n">>}
    THEN q + 2
    ELSE 0

\* \s*(?:to|in|...)\s*([a-zA-Z_]+)\s*$ from q on: where group 3 starts and ends, or <<0, 0>>
Rest(text, q) ==
    LET c == Connector(text, RunEnd(text, q, Spaces))
        u == RunEnd(text, c, Spaces)
        v == RunEnd(text, u, Letters)
    IN  IF c # 0 /\ v > u /\ RunEnd(text, v, Spaces) = Len(text) + 1
        THEN <<u, v>> ELSE <<0, 0>>

NoMatch == [matched |-> FALSE, g1 |-> <<>>, g2 |-> <<>>, g3 |-> <<>>]

\* CONV_RE.match(expr): the groups of the match the backtracking search finds first
CONV_RE_match(text) ==
    LET a == RunEnd(text, 1, Spaces)
        b == RunEnd(text, a, Range(Digits))
        f == IF b <= Len(text) /\ text[b] = "." THEN RunEnd(text, b + 1, Range(Digits)) ELSE b
        c == IF f > b + 1 THEN f ELSE b
        d == RunEnd(text, c, Spaces)
        e == RunEnd(text, d, Letters)
        ends == {j \in (d + 1)..e : Rest(text, j)[1] # 0}
        j == CHOOSE x \in ends : \A y \in ends : y <= x
    IN  IF b = a \/ ends = {} THEN NoMatch
        ELSE [matched |-> TRUE, g1 |-> Slice(text, a, c), g2 |-> Slice(text, d, j),
              g3 |-> Slice(text, Rest(text, j)[1], Rest(text, j)[2])]

DigitValue(c) == (CHOOSE i \in 1..10 : Digits[i] = c) - 1

RECURSIVE DigitsValue(_)
DigitsValue(ds) ==
    IF ds = <<>> THEN 0 ELSE DigitsValue(SubSeq(ds, 1, Len(ds) - 1)) * 10 + DigitValue(ds[Len(ds)])

RECURSIVE TenTo(_)
TenTo(k) == IF k = 0 THEN 1 ELSE 10 * TenTo(k - 1)

\* float(text) for the texts group 1 can hold: digits, or digits "." digits
float(text) ==
    LET ds == SelectSeq(text, LAMBDA c : c # ".")
        dot == IF \E i \in 1..Len(text) : text[i] = "."
               THEN CHOOSE i \in 1..Len(text) : text[i] = "." ELSE Len(text)
    IN  FloatV(DigitsValue(ds), TenTo(Len(text) - dot))

NoneV == Val("NoneType", 0, 1, <<>>, "")

\* val, u_from, u_to = float(m.group(1)), m.group(2), m.group(3); _convert(...)
converted(mt, tr) ==
    IF ~mt.matched THEN Traced(Returned(NoneV), tr)
    ELSE Traced(_convert(float(mt.g1), StrV(mt.g2), StrV(mt.g3)),
                tr \o <<Invoke("_convert", <<float(mt.g1), StrV(mt.g2), StrV(mt.g3)>>)>>)

try_unit_conversion(expr) == converted(CONV_RE_match(expr), <<Invoke("CONV_RE.match", <<>>)>>)


----------------------------------------------------------------------------
(* ast.parse(expr, mode="eval") on the texts the model draws: the table    *)
(* below is CPython 3.11's answer for each of them, the tree (.body) or    *)
(* the SyntaxError with its message.                                       *)

Parsed(text, kind, msg, body) == [text |-> text, kind |-> kind, msg |-> msg, body |-> body]

Corpus ==
    <<Parsed(<<"2", " ", "+", " ", "2">>, "", "", BinOp(Constant(IntV(2)), "Add", Constant(IntV(2)))),
      Parsed(<<"2", " ", "+", " ", "3", " ", "*", " ", "4">>, "", "", BinOp(Constant(IntV(2)), "Add", BinOp(Constant(IntV(3)), "Mult", Constant(IntV(4))))),
      Parsed(<<"(", "2", " ", "+", " ", "3", ")", " ", "*", " ", "4">>, "", "", BinOp(BinOp(Constant(IntV(2)), "Add", Constant(IntV(3))), "Mult", Constant(IntV(4)))),
      Parsed(<<"1", "0", " ", "/", " ", "4">>, "", "", BinOp(Constant(IntV(10)), "Div", Constant(IntV(4)))),
      Parsed(<<"1", "0", " ", "/", " ", "5">>, "", "", BinOp(Constant(IntV(10)), "Div", Constant(IntV(5)))),
      Parsed(<<"2", " ", "*", "*", " ", "3">>, "", "", BinOp(Constant(IntV(2)), "Pow", Constant(IntV(3)))),
      Parsed(<<"2", " ", "*", "*", " ", "-", "1">>, "", "", BinOp(Constant(IntV(2)), "Pow", UnaryOp("USub", Constant(IntV(1))))),
      Parsed(<<"2", " ", "*", "*", " ", "0", ".", "5">>, "", "", BinOp(Constant(IntV(2)), "Pow", Constant(FloatV(1, 2)))),
      Parsed(<<"4", " ", "*", "*", " ", "0", ".", "5">>, "", "", BinOp(Constant(IntV(4)), "Pow", Constant(FloatV(1, 2)))),
      Parsed(<<"7", " ", "%", " ", "3">>, "", "", BinOp(Constant(IntV(7)), "Mod", Constant(IntV(3)))),
      Parsed(<<"-", "7", " ", "%", " ", "3">>, "", "", BinOp(UnaryOp("USub", Constant(IntV(7))), "Mod", Constant(IntV(3)))),
      Parsed(<<"7", ".", "5", " ", "%", " ", "2">>, "", "", BinOp(Constant(FloatV(15, 2)), "Mod", Constant(IntV(2)))),
      Parsed(<<"-", "5">>, "", "", UnaryOp("USub", Constant(IntV(5)))),
      Parsed(<<"-", "2", ".", "5">>, "", "", UnaryOp("USub", Constant(FloatV(5, 2)))),
      Parsed(<<"1", ".", "5", " ", "+", " ", "1", ".", "5">>, "", "", BinOp(Constant(FloatV(3, 2)), "Add", Constant(FloatV(3, 2)))),
      Parsed(<<"0", ".", "5", " ", "*", " ", "4">>, "", "", BinOp(Constant(FloatV(1, 2)), "Mult", Constant(IntV(4)))),
      Parsed(<<"1", " ", "/", " ", "3">>, "", "", BinOp(Constant(IntV(1)), "Div", Constant(IntV(3)))),
      Parsed(<<"2", " ", "*", " ", "(", "3", " ", "+", " ", "4", ")">>, "", "", BinOp(Constant(IntV(2)), "Mult", BinOp(Constant(IntV(3)), "Add", Constant(IntV(4))))),
      Parsed(<<"1", "0", "0", " ", "-", " ", "1">>, "", "", BinOp(Constant(IntV(100)), "Sub", Constant(IntV(1)))),
      Parsed(<<"s", "q", "r", "t", "(", "1", "6", ")">>, "", "", Call(Name("sqrt"), <<Constant(IntV(16))>>)),
      Parsed(<<"s", "q", "r", "t", "(", "2", ".", "2", "5", ")">>, "", "", Call(Name("sqrt"), <<Constant(FloatV(9, 4))>>)),
      Parsed(<<"s", "q", "r", "t", "(", "-", "1", ")">>, "", "", Call(Name("sqrt"), <<UnaryOp("USub", Constant(IntV(1)))>>)),
      Parsed(<<"s", "q", "r", "t", "(", "2", ")">>, "", "", Call(Name("sqrt"), <<Constant(IntV(2))>>)),
      Parsed(<<"p", "i">>, "", "", Name("pi")),
      Parsed(<<"e">>, "", "", Name("e")),
      Parsed(<<"s", "q", "r", "t">>, "", "", Name("sqrt")),
      Parsed(<<"'", "a", "b", "c", "'">>, "", "", Constant(StrV(<<"a", "b", "c">>))),
      Parsed(<<"'", "a", "'", " ", "*", " ", "2">>, "", "", BinOp(Constant(StrV(<<"a">>)), "Mult", Constant(IntV(2)))),
      Parsed(<<"'", "a", "'", " ", "+", " ", "'", "b", "'">>, "", "", BinOp(Constant(StrV(<<"a">>)), "Add", Constant(StrV(<<"b">>)))),
      Parsed(<<"1", " ", "+", " ", "'", "a", "'">>, "", "", BinOp(Constant(IntV(1)), "Add", Constant(StrV(<<"a">>)))),
      Parsed(<<"1", " ", "-", " ", "'", "a", "'">>, "", "", BinOp(Constant(IntV(1)), "Sub", Constant(StrV(<<"a">>)))),
      Parsed(<<"'", "a", "'", " ", "%", " ", "5">>, "", "", BinOp(Constant(StrV(<<"a">>)), "Mod", Constant(IntV(5)))),
      Parsed(<<"-", "'", "a", "'">>, "", "", UnaryOp("USub", Constant(StrV(<<"a">>)))),
      Parsed(<<"o", "s", ".", "s", "y", "s", "t", "e", "m", "(", "'", "x", "'", ")">>, "", "", Call(Attribute(Name("os"), "system"), <<Constant(StrV(<<"x">>))>>)),
      Parsed(<<"o", "s", ".", "s", "y", "s", "t", "e", "m">>, "", "", Attribute(Name("os"), "system")),
      Parsed(<<"f", "o", "o">>, "", "", Name("foo")),
      Parsed(<<"f", "o", "o", " ", "+", " ", "1">>, "", "", BinOp(Name("foo"), "Add", Constant(IntV(1)))),
      Parsed(<<"1", " ", "+", " ", "f", "o", "o">>, "", "", BinOp(Constant(IntV(1)), "Add", Name("foo"))),
      Parsed(<<"f", "o", "o", " ", "/", "/", " ", "1">>, "", "", BinOp(Name("foo"), "FloorDiv", Constant(IntV(1)))),
      Parsed(<<"7", " ", "/", "/", " ", "2">>, "", "", BinOp(Constant(IntV(7)), "FloorDiv", Constant(IntV(2)))),
      Parsed(<<"+", "5">>, "", "", UnaryOp("UAdd", Constant(IntV(5)))),
      Parsed(<<"n", "o", "t", " ", "1">>, "", "", UnaryOp("Not", Constant(IntV(1)))),
      Parsed(<<"1", " ", "+", " ">>, "SyntaxError", "invalid syntax (<unknown>, line 1)", NoNode),
      Parsed(<<"(", "1">>, "SyntaxError", "'(' was never closed (<unknown>, line 1)", NoNode),
      Parsed(<<"1", " ", "<", " ", "2">>, "", "", Compare(Constant(IntV(1)), "Lt", Constant(IntV(2)))),
      Parsed(<<"[", "1", ",", " ", "2", "]">>, "", "", List(<<Constant(IntV(1)), Constant(IntV(2))>>)),
      Parsed(<<"[", "1", "]", " ", "+", " ", "f", "o", "o">>, "", "", BinOp(List(<<Constant(IntV(1))>>), "Add", Name("foo"))),
      Parsed(<<"f", "o", "o", " ", "+", " ", "[", "1", "]">>, "", "", BinOp(Name("foo"), "Add", List(<<Constant(IntV(1))>>))),
      Parsed(<<"c", "o", "n", "v", "e", "r", "t", "(", "2", ",", " ", "'", "l", "'", ",", " ", "'", "m", "l", "'", ")">>, "", "", Call(Name("convert"), <<Constant(IntV(2)), Constant(StrV(<<"l">>)), Constant(StrV(<<"m", "l">>))>>)),
      Parsed(<<"c", "o", "n", "v", "e", "r", "t", "(", "2", ",", " ", "'", "L", "'", ",", " ", "'", "M", "L", "'", ")">>, "", "", Call(Name("convert"), <<Constant(IntV(2)), Constant(StrV(<<"L">>)), Constant(StrV(<<"M", "L">>))>>)),
      Parsed(<<"c", "o", "n", "v", "e", "r", "t", "(", "2", ".", "5", ",", " ", "'", "c", "u", "p", "s", "'", ",", " ", "'", "m", "l", "'", ")">>, "", "", Call(Name("convert"), <<Constant(FloatV(5, 2)), Constant(StrV(<<"c", "u", "p", "s">>)), Constant(StrV(<<"m", "l">>))>>)),
      Parsed(<<"c", "o", "n", "v", "e", "r", "t", "(", "2", ".", "5", ",", " ", "'", "c", "u", "p", "s", "'", ",", " ", "'", "g", "'", ")">>, "", "", Call(Name("convert"), <<Constant(FloatV(5, 2)), Constant(StrV(<<"c", "u", "p", "s">>)), Constant(StrV(<<"g">>))>>)),
      Parsed(<<"c", "o", "n", "v", "e", "r", "t", "(", "1", ",", " ", "'", "l", "b", "'", ",", " ", "'", "o", "z", "'", ")">>, "", "", Call(Name("convert"), <<Constant(IntV(1)), Constant(StrV(<<"l", "b">>)), Constant(StrV(<<"o", "z">>))>>)),
      Parsed(<<"c", "o", "n", "v", "e", "r", "t", "(", "2", ",", " ", "'", "l", "'", ")">>, "", "", Call(Name("convert"), <<Constant(IntV(2)), Constant(StrV(<<"l">>))>>)),
      Parsed(<<"c", "o", "n", "v", "e", "r", "t", "(", "'", "a", "'", ",", " ", "'", "l", "'", ",", " ", "'", "m", "l", "'", ")">>, "", "", Call(Name("convert"), <<Constant(StrV(<<"a">>)), Constant(StrV(<<"l">>)), Constant(StrV(<<"m", "l">>))>>)),
      Parsed(<<"c", "o", "n", "v", "e", "r", "t", "(", "2", ",", " ", "3", ",", " ", "'", "m", "l", "'", ")">>, "", "", Call(Name("convert"), <<Constant(IntV(2)), Constant(IntV(3)), Constant(StrV(<<"m", "l">>))>>)),
      Parsed(<<"c", "o", "n", "v", "e", "r", "t", "(", "s", "q", "r", "t", ",", " ", "'", "l", "'", ",", " ", "'", "m", "l", "'", ")">>, "", "", Call(Name("convert"), <<Name("sqrt"), Constant(StrV(<<"l">>)), Constant(StrV(<<"m", "l">>))>>)),
      Parsed(<<"1", " ", "/", " ", "0">>, "", "", BinOp(Constant(IntV(1)), "Div", Constant(IntV(0)))),
      Parsed(<<"1", ".", "5", " ", "/", " ", "0">>, "", "", BinOp(Constant(FloatV(3, 2)), "Div", Constant(IntV(0)))),
      Parsed(<<"1", " ", "%", " ", "0">>, "", "", BinOp(Constant(IntV(1)), "Mod", Constant(IntV(0)))),
      Parsed(<<"0", " ", "*", "*", " ", "-", "1">>, "", "", BinOp(Constant(IntV(0)), "Pow", UnaryOp("USub", Constant(IntV(1))))),
      Parsed(<<"s", "q", "r", "t", "(", "1", ",", " ", "2", ")">>, "", "", Call(Name("sqrt"), <<Constant(IntV(1)), Constant(IntV(2))>>)),
      Parsed(<<"s", "q", "r", "t", "(", "'", "a", "'", ")">>, "", "", Call(Name("sqrt"), <<Constant(StrV(<<"a">>))>>)),
      Parsed(<<"s", "q", "r", "t", "(", ")">>, "", "", Call(Name("sqrt"), <<>>)),
      Parsed(<<"p", "i", "(", "2", ")">>, "", "", Call(Name("pi"), <<Constant(IntV(2))>>)),
      Parsed(<<"l", "o", "g", "(", "1", ")">>, "", "", Call(Name("log"), <<Constant(IntV(1))>>)),
      Parsed(<<"l", "o", "g", "(", "0", ")">>, "", "", Call(Name("log"), <<Constant(IntV(0))>>)),
      Parsed(<<"l", "o", "g", "(", "8", ",", " ", "1", ")">>, "", "", Call(Name("log"), <<Constant(IntV(8)), Constant(IntV(1))>>)),
      Parsed(<<"e", "x", "p", "(", "0", ")">>, "", "", Call(Name("exp"), <<Constant(IntV(0))>>)),
      Parsed(<<"e", "x", "p", "(", "1", "0", "0", "0", ")">>, "", "", Call(Name("exp"), <<Constant(IntV(1000))>>)),
      Parsed(<<"c", "o", "s", "(", "0", ")">>, "", "", Call(Name("cos"), <<Constant(IntV(0))>>)),
      Parsed(<<"l", "o", "g", "2", "(", "8", ")">>, "", "", Call(Name("log2"), <<Constant(IntV(8))>>)),
      Parsed(<<"l", "o", "g", "1", "0", "(", "1", "0", "0", ")">>, "", "", Call(Name("log10"), <<Constant(IntV(100))>>)),
      Parsed(<<"a", "s", "i", "n", "(", "2", ")">>, "", "", Call(Name("asin"), <<Constant(IntV(2))>>)),
      Parsed(<<"s", "q", "r", "t", "(", "f", "o", "o", ",", " ", "[", "1", "]", ")">>, "", "", Call(Name("sqrt"), <<Name("foo"), List(<<Constant(IntV(1))>>)>>)),
      Parsed(<<"s", "q", "r", "t", "(", "[", "1", "]", ",", " ", "f", "o", "o", ")">>, "", "", Call(Name("sqrt"), <<List(<<Constant(IntV(1))>>), Name("foo")>>)),
      Parsed(<<"f", "o", "o", "(", "[", "1", "]", ")">>, "", "", Call(Name("foo"), <<List(<<Constant(IntV(1))>>)>>)),
      Parsed(<<"s", "q", "r", "t", "(", "4", ")", " ", "+", " ", "f", "o", "o">>, "", "", BinOp(Call(Name("sqrt"), <<Constant(IntV(4))>>), "Add", Name("foo"))),
      Parsed(<<"s", "q", "r", "t", "(", "4", ")", " ", "+", " ", "s", "q", "r", "t", "(", "9", ")">>, "", "", BinOp(Call(Name("sqrt"), <<Constant(IntV(4))>>), "Add", Call(Name("sqrt"), <<Constant(IntV(9))>>))),
      Parsed(<<"s", "q", "r", "t", "(", "1", "6", ")", " ", "/", " ", "2">>, "", "", BinOp(Call(Name("sqrt"), <<Constant(IntV(16))>>), "Div", Constant(IntV(2)))),
      Parsed(<<"s", "q", "r", "t", " ", "+", " ", "1">>, "", "", BinOp(Name("sqrt"), "Add", Constant(IntV(1)))),
      Parsed(<<"2", " ", "+", " ", "2", " ", "+">>, "SyntaxError", "invalid syntax (<unknown>, line 1)", NoNode),
      Parsed(<<"2", " ", "c", "u", "p", "s">>, "SyntaxError", "invalid syntax (<unknown>, line 1)", NoNode),
      Parsed(<<"2", " ", "l", " ", "t", "o", " ", "l">>, "SyntaxError", "invalid syntax (<unknown>, line 1)", NoNode),
      Parsed(<<"2", " ", "l", " ", "t", "o", " ", "m", "l">>, "SyntaxError", "invalid syntax (<unknown>, line 1)", NoNode),
      Parsed(<<"2", " ", "l", " ", "t", "o", " ", "c", "u", "p", "s">>, "SyntaxError", "invalid syntax (<unknown>, line 1)", NoNode),
      Parsed(<<"2", " ", "l", " ", "t", "o", " ", "g">>, "SyntaxError", "invalid syntax (<unknown>, line 1)", NoNode),
      Parsed(<<"2", " ", "l", " ", "t", "o", " ", "o", "z">>, "SyntaxError", "invalid syntax (<unknown>, line 1)", NoNode),
      Parsed(<<"2", " ", "l", " ", "t", "o", " ", "x">>, "SyntaxError", "invalid syntax (<unknown>, line 1)", NoNode),
      Parsed(<<"2", " ", "m", "l", " ", "t", "o", " ", "l">>, "SyntaxError", "invalid syntax (<unknown>, line 1)", NoNode),
      Parsed(<<"2", " ", "m", "l", " ", "t", "o", " ", "m", "l">>, "SyntaxError", "invalid syntax (<unknown>, line 1)", NoNode),
      Parsed(<<"2", " ", "m", "l", " ", "t", "o", " ", "c", "u", "p", "s">>, "SyntaxError", "invalid syntax (<unknown>, line 1)", NoNode),
      Parsed(<<"2", " ", "m", "l", " ", "t", "o", " ", "g">>, "SyntaxError", "invalid syntax (<unknown>, line 1)", NoNode),
      Parsed(<<"2", " ", "m", "l", " ", "t", "o", " ", "o", "z">>, "SyntaxError", "invalid syntax (<unknown>, line 1)", NoNode),
      Parsed(<<"2", " ", "m", "l", " ", "t", "o", " ", "x">>, "SyntaxError", "invalid syntax (<unknown>, line 1)", NoNode),
      Parsed(<<"2", " ", "c", "u", "p", "s", " ", "t", "o", " ", "l">>, "SyntaxError", "invalid syntax (<unknown>, line 1)", NoNode),
      Parsed(<<"2", " ", "c", "u", "p", "s", " ", "t", "o", " ", "m", "l">>, "SyntaxError", "invalid syntax (<unknown>, line 1)", NoNode),
      Parsed(<<"2", " ", "c", "u", "p", "s", " ", "t", "o", " ", "c", "u", "p", "s">>, "SyntaxError", "invalid syntax (<unknown>, line 1)", NoNode),
      Parsed(<<"2", " ", "c", "u", "p", "s", " ", "t", "o", " ", "g">>, "SyntaxError", "invalid syntax (<unknown>, line 1)", NoNode),
      Parsed(<<"2", " ", "c", "u", "p", "s", " ", "t", "o", " ", "o", "z">>, "SyntaxError", "invalid syntax (<unknown>, line 1)", NoNode),
      Parsed(<<"2", " ", "c", "u", "p", "s", " ", "t", "o", " ", "x">>, "SyntaxError", "invalid syntax (<unknown>, line 1)", NoNode),
      Parsed(<<"2", " ", "g", " ", "t", "o", " ", "l">>, "SyntaxError", "invalid syntax (<unknown>, line 1)", NoNode),
      Parsed(<<"2", " ", "g", " ", "t", "o", " ", "m", "l">>, "SyntaxError", "invalid syntax (<unknown>, line 1)", NoNode),
      Parsed(<<"2", " ", "g", " ", "t", "o", " ", "c", "u", "p", "s">>, "SyntaxError", "invalid syntax (<unknown>, line 1)", NoNode),
      Parsed(<<"2", " ", "g", " ", "t", "o", " ", "g">>, "SyntaxError", "invalid syntax (<unknown>, line 1)", NoNode),
      Parsed(<<"2", " ", "g", " ", "t", "o", " ", "o", "z">>, "SyntaxError", "invalid syntax (<unknown>, line 1)", NoNode),
      Parsed(<<"2", " ", "g", " ", "t", "o", " ", "x">>, "SyntaxError", "invalid syntax (<unknown>, line 1)", NoNode),
      Parsed(<<"2", " ", "o", "z", " ", "t", "o", " ", "l">>, "SyntaxError", "invalid syntax (<unknown>, line 1)", NoNode),
      Parsed(<<"2", " ", "o", "z", " ", "t", "o", " ", "m", "l">>, "SyntaxError", "invalid syntax (<unknown>, line 1)", NoNode),
      Parsed(<<"2", " ", "o", "z", " ", "t", "o", " ", "c", "u", "p", "s">>, "SyntaxError", "invalid syntax (<unknown>, line 1)", NoNode),
      Parsed(<<"2", " ", "o", "z", " ", "t", "o", " ", "g">>, "SyntaxError", "invalid syntax (<unknown>, line 1)", NoNode),
      Parsed(<<"2", " ", "o", "z", " ", "t", "o", " ", "o", "z">>, "SyntaxError", "invalid syntax (<unknown>, line 1)", NoNode),
      Parsed(<<"2", " ", "o", "z", " ", "t", "o", " ", "x">>, "SyntaxError", "invalid syntax (<unknown>, line 1)", NoNode),
      Parsed(<<"2", " ", "x", " ", "t", "o", " ", "l">>, "SyntaxError", "invalid syntax (<unknown>, line 1)", NoNode),
      Parsed(<<"2", " ", "x", " ", "t", "o", " ", "m", "l">>, "SyntaxError", "invalid syntax (<unknown>, line 1)", NoNode),
      Parsed(<<"2", " ", "x", " ", "t", "o", " ", "c", "u", "p", "s">>, "SyntaxError", "invalid syntax (<unknown>, line 1)", NoNode),
      Parsed(<<"2", " ", "x", " ", "t", "o", " ", "g">>, "SyntaxError", "invalid syntax (<unknown>, line 1)", NoNode),
      Parsed(<<"2", " ", "x", " ", "t", "o", " ", "o", "z">>, "SyntaxError", "invalid syntax (<unknown>, line 1)", NoNode),
      Parsed(<<"2", " ", "x", " ", "t", "o", " ", "x">>, "SyntaxError", "invalid syntax (<unknown>, line 1)", NoNode),
      Parsed(<<"2", ".", "5", " ", "l", " ", "t", "o", " ", "l">>, "SyntaxError", "invalid syntax (<unknown>, line 1)", NoNode),
      Parsed(<<"2", ".", "5", " ", "l", " ", "t", "o", " ", "m", "l">>, "SyntaxError", "invalid syntax (<unknown>, line 1)", NoNode),
      Parsed(<<"2", ".", "5", " ", "l", " ", "t", "o", " ", "c", "u", "p", "s">>, "SyntaxError", "invalid syntax (<unknown>, line 1)", NoNode),
      Parsed(<<"2", ".", "5", " ", "l", " ", "t", "o", " ", "g">>, "SyntaxError", "invalid syntax (<unknown>, line 1)", NoNode),
      Parsed(<<"2", ".", "5", " ", "l", " ", "t", "o", " ", "o", "z">>, "SyntaxError", "invalid syntax (<unknown>, line 1)", NoNode),
      Parsed(<<"2", ".", "5", " ", "l", " ", "t", "o", " ", "x">>, "SyntaxError", "invalid syntax (<unknown>, line 1)", NoNode),
      Parsed(<<"2", ".", "5", " ", "m", "l", " ", "t", "o", " ", "l">>, "SyntaxError", "invalid syntax (<unknown>, line 1)", NoNode),
      Parsed(<<"2", ".", "5", " ", "m", "l", " ", "t", "o", " ", "m", "l">>, "SyntaxError", "invalid syntax (<unknown>, line 1)", NoNode),
      Parsed(<<"2", ".", "5", " ", "m", "l", " ", "t", "o", " ", "c", "u", "p", "s">>, "SyntaxError", "invalid syntax (<unknown>, line 1)", NoNode),
      Parsed(<<"2", ".", "5", " ", "m", "l", " ", "t", "o", " ", "g">>, "SyntaxError", "invalid syntax (<unknown>, line 1)", NoNode),
      Parsed(<<"2", ".", "5", " ", "m", "l", " ", "t", "o", " ", "o", "z">>, "SyntaxError", "invalid syntax (<unknown>, line 1)", NoNode),
      Parsed(<<"2", ".", "5", " ", "m", "l", " ", "t", "o", " ", "x">>, "SyntaxError", "invalid syntax (<unknown>, line 1)", NoNode),
      Parsed(<<"2", ".", "5", " ", "c", "u", "p", "s", " ", "t", "o", " ", "l">>, "SyntaxError", "invalid syntax (<unknown>, line 1)", NoNode),
      Parsed(<<"2", ".", "5", " ", "c", "u", "p", "s", " ", "t", "o", " ", "m", "l">>, "SyntaxError", "invalid syntax (<unknown>, line 1)", NoNode),
      Parsed(<<"2", ".", "5", " ", "c", "u", "p", "s", " ", "t", "o", " ", "c", "u", "p", "s">>, "SyntaxError", "invalid syntax (<unknown>, line 1)", NoNode),
      Parsed(<<"2", ".", "5", " ", "c", "u", "p", "s", " ", "t", "o", " ", "g">>, "SyntaxError", "invalid syntax (<unknown>, line 1)", NoNode),
      Parsed(<<"2", ".", "5", " ", "c", "u", "p", "s", " ", "t", "o", " ", "o", "z">>, "SyntaxError", "invalid syntax (<unknown>, line 1)", NoNode),
      Parsed(<<"2", ".", "5", " ", "c", "u", "p", "s", " ", "t", "o", " ", "x">>, "SyntaxError", "invalid syntax (<unknown>, line 1)", NoNode),
      Parsed(<<"2", ".", "5", " ", "g", " ", "t", "o", " ", "l">>, "SyntaxError", "invalid syntax (<unknown>, line 1)", NoNode),
      Parsed(<<"2", ".", "5", " ", "g", " ", "t", "o", " ", "m", "l">>, "SyntaxError", "invalid syntax (<unknown>, line 1)", NoNode),
      Parsed(<<"2", ".", "5", " ", "g", " ", "t", "o", " ", "c", "u", "p", "s">>, "SyntaxError", "invalid syntax (<unknown>, line 1)", NoNode),
      Parsed(<<"2", ".", "5", " ", "g", " ", "t", "o", " ", "g">>, "SyntaxError", "invalid syntax (<unknown>, line 1)", NoNode),
      Parsed(<<"2", ".", "5", " ", "g", " ", "t", "o", " ", "o", "z">>, "SyntaxError", "invalid syntax (<unknown>, line 1)", NoNode),
      Parsed(<<"2", ".", "5", " ", "g", " ", "t", "o", " ", "x">>, "SyntaxError", "invalid syntax (<unknown>, line 1)", NoNode),
      Parsed(<<"2", ".", "5", " ", "o", "z", " ", "t", "o", " ", "l">>, "SyntaxError", "invalid syntax (<unknown>, line 1)", NoNode),
      Parsed(<<"2", ".", "5", " ", "o", "z", " ", "t", "o", " ", "m", "l">>, "SyntaxError", "invalid syntax (<unknown>, line 1)", NoNode),
      Parsed(<<"2", ".", "5", " ", "o", "z", " ", "t", "o", " ", "c", "u", "p", "s">>, "SyntaxError", "invalid syntax (<unknown>, line 1)", NoNode),
      Parsed(<<"2", ".", "5", " ", "o", "z", " ", "t", "o", " ", "g">>, "SyntaxError", "invalid syntax (<unknown>, line 1)", NoNode),
      Parsed(<<"2", ".", "5", " ", "o", "z", " ", "t", "o", " ", "o", "z">>, "SyntaxError", "invalid syntax (<unknown>, line 1)", NoNode),
      Parsed(<<"2", ".", "5", " ", "o", "z", " ", "t", "o", " ", "x">>, "SyntaxError", "invalid syntax (<unknown>, line 1)", NoNode),
      Parsed(<<"2", ".", "5", " ", "x", " ", "t", "o", " ", "l">>, "SyntaxError", "invalid syntax (<unknown>, line 1)", NoNode),
      Parsed(<<"2", ".", "5", " ", "x", " ", "t", "o", " ", "m", "l">>, "SyntaxError", "invalid syntax (<unknown>, line 1)", NoNode),
      Parsed(<<"2", ".", "5", " ", "x", " ", "t", "o", " ", "c", "u", "p", "s">>, "SyntaxError", "invalid syntax (<unknown>, line 1)", NoNode),
      Parsed(<<"2", ".", "5", " ", "x", " ", "t", "o", " ", "g">>, "SyntaxError", "invalid syntax (<unknown>, line 1)", NoNode),
      Parsed(<<"2", ".", "5", " ", "x", " ", "t", "o", " ", "o", "z">>, "SyntaxError", "invalid syntax (<unknown>, line 1)", NoNode),
      Parsed(<<"2", ".", "5", " ", "x", " ", "t", "o", " ", "x">>, "SyntaxError", "invalid syntax (<unknown>, line 1)", NoNode),
      Parsed(<<"2", " ", "l", " ", "i", "n", " ", "m", "l">>, "SyntaxError", "invalid syntax (<unknown>, line 1)", NoNode),
      Parsed(<<"2", " ", "l", " ", ">", " ", "m", "l">>, "SyntaxError", "invalid syntax (<unknown>, line 1)", NoNode),
      Parsed(<<"2", " ", "l", " ", "U+2192", " ", "m", "l">>, "SyntaxError", "invalid character 'U+2192' (U+2192) (<unknown>, line 1)", NoNode),
      Parsed(<<"2", "l", ">", "m", "l">>, "SyntaxError", "invalid decimal literal (<unknown>, line 1)", NoNode),
      Parsed(<<"2", "c", "u", "p", "s", "t", "o", "m", "l">>, "SyntaxError", "invalid decimal literal (<unknown>, line 1)", NoNode),
      Parsed(<<"2", " ", "C", "U", "P", "S", " ", "t", "o", " ", "M", "L">>, "SyntaxError", "invalid syntax (<unknown>, line 1)", NoNode),
      Parsed(<<"2", " ", "C", "u", "p", "s", " ", "t", "o", " ", "M", "l">>, "SyntaxError", "invalid syntax (<unknown>, line 1)", NoNode),
      Parsed(<<" ", " ", "2", " ", "l", " ", "t", "o", " ", "m", "l", " ", " ">>, "IndentationError", "unexpected indent (<unknown>, line 1)", NoNode),
      Parsed(<<"2", " ", "l", "\t", "t", "o", "\t", "m", "l">>, "SyntaxError", "invalid syntax (<unknown>, line 1)", NoNode),
      Parsed(<<"2", " ", "i", "n", "t", "o", " ", "x">>, "SyntaxError", "invalid syntax (<unknown>, line 1)", NoNode),
      Parsed(<<"2", " ", "l", "i", "n", " ", "m", "l">>, "SyntaxError", "invalid syntax (<unknown>, line 1)", NoNode),
      Parsed(<<"1", " ", "l", "b", " ", "t", "o", " ", "o", "z">>, "SyntaxError", "invalid syntax (<unknown>, line 1)", NoNode),
      Parsed(<<"1", " ", "c", "u", "p", " ", "t", "o", " ", "f", "l", "_", "o", "z">>, "SyntaxError", "invalid syntax (<unknown>, line 1)", NoNode),
      Parsed(<<"1", " ", "k", "g", " ", "t", "o", " ", "o", "z">>, "SyntaxError", "invalid syntax (<unknown>, line 1)", NoNode),
      Parsed(<<"0", " ", "l", " ", "t", "o", " ", "m", "l">>, "SyntaxError", "invalid syntax (<unknown>, line 1)", NoNode),
      Parsed(<<"0", ".", "2", "5", " ", "l", " ", "t", "o", " ", "m", "l">>, "SyntaxError", "invalid syntax (<unknown>, line 1)", NoNode),
      Parsed(<<"3", " ", "t", "s", "p", " ", "t", "o", " ", "t", "b", "s", "p">>, "SyntaxError", "invalid syntax (<unknown>, line 1)", NoNode),
      Parsed(<<"2", " ", "t", "b", "s", "p", " ", "t", "o", " ", "t", "s", "p">>, "SyntaxError", "invalid syntax (<unknown>, line 1)", NoNode),
      Parsed(<<"1", " ", "l", " ", "t", "o", " ", "c", "u", "p", "s">>, "SyntaxError", "invalid syntax (<unknown>, line 1)", NoNode),
      Parsed(<<"2", " ", "K", "G", " ", "t", "o", " ", "G">>, "SyntaxError", "invalid syntax (<unknown>, line 1)", NoNode),
      Parsed(<<"2", " ", "l", " ", "t", "o", " ", "m", "l", "\n">>, "SyntaxError", "invalid syntax (<unknown>, line 1)", NoNode),
      Parsed(<<"2", " ", "c", "u", "p", "s", " ", "t", "o">>, "SyntaxError", "invalid syntax (<unknown>, line 1)", NoNode),
      Parsed(<<"c", "u", "p", "s", " ", "t", "o", " ", "m", "l">>, "SyntaxError", "invalid syntax (<unknown>, line 1)", NoNode),
      Parsed(<<"2", " ", "c", "u", "p", "s", " ", "m", "l">>, "SyntaxError", "invalid syntax (<unknown>, line 1)", NoNode),
      Parsed(<<"-", "2", " ", "c", "u", "p", "s", " ", "t", "o", " ", "m", "l">>, "SyntaxError", "invalid syntax (<unknown>, line 1)", NoNode),
      Parsed(<<"2", "e", "3", " ", "l", " ", "t", "o", " ", "m", "l">>, "SyntaxError", "invalid syntax (<unknown>, line 1)", NoNode),
      Parsed(<<"2", " ", "c", "u", "p", "s", " ", "t", "o", " ", "m", "l", "!">>, "SyntaxError", "invalid syntax (<unknown>, line 1)", NoNode),
      Parsed(<<"2", ".", " ", "c", "u", "p", "s", " ", "t", "o", " ", "m", "l">>, "SyntaxError", "invalid syntax (<unknown>, line 1)", NoNode),
      Parsed(<<".", "5", " ", "c", "u", "p", "s", " ", "t", "o", " ", "m", "l">>, "SyntaxError", "invalid syntax (<unknown>, line 1)", NoNode),
      Parsed(<<"2", " ", "f", "l", "-", "o", "z", " ", "t", "o", " ", "m", "l">>, "SyntaxError", "invalid syntax (<unknown>, line 1)", NoNode),
      Parsed(<<"2", " ", "l", " ", "t", "o", " ", "m", "l", " ", "t", "o", " ", "g">>, "SyntaxError", "invalid syntax (<unknown>, line 1)", NoNode),
      Parsed(<<"2", " ", "l", " ", "t", "o", "o", " ", "m", "l">>, "SyntaxError", "invalid syntax (<unknown>, line 1)", NoNode),
      Parsed(<<"2", " ", "l", " ", " ", "m", "l">>, "SyntaxError", "invalid syntax (<unknown>, line 1)", NoNode),
      Parsed(<<"2", " ", "t", "o", " ", "m", "l">>, "SyntaxError", "invalid syntax (<unknown>, line 1)", NoNode)>>

ast_parse(expr) == Corpus[CHOOSE i \in 1..Len(Corpus) : Corpus[i].text = expr]

----------------------------------------------------------------------------
(* safe_eval and the service handler.                                      *)

\* if isinstance(result, float) and result.is_integer(): return int(result)
tidy(result) ==
    IF result.k = "float" /\ is_integer(result) THEN int(result) ELSE result

\* result = _eval(tree.body), then the tidy step, after the calls of tr
evaluated(result, tr) ==
    IF result.raised THEN Traced(result, tr \o result.trace)
    ELSE Traced(Returned(tidy(result.value)), tr \o result.trace)

\* tree = ast.parse(expr, mode="eval"): a SyntaxError, or on to _eval
parsed(m, tree, tr) ==
    IF tree.kind # "" THEN Traced(Raised(tree.kind, tree.msg), tr)
    ELSE evaluated(_eval(m, tree.body), tr)

\* the arithmetic path of safe_eval, after the calls of tr
parse_and_eval(m, expr, tr) == parsed(m, ast_parse(expr), tr \o <<Invoke("ast.parse", <<>>)>>)

\* the shorthand path that treats a failed conversion like no match
shorthand_first_retry(expr, maybe) ==
    IF ~maybe.raised /\ maybe.value # NoneV THEN maybe
    ELSE parse_and_eval(Kitchen, expr, maybe.trace)

\* maybe = try_unit_conversion(expr); if maybe is not None: return maybe
shorthand_first(expr, maybe) ==
    IF maybe.raised THEN maybe
    ELSE IF maybe.value # NoneV THEN maybe
    ELSE parse_and_eval(Kitchen, expr, maybe.trace)

safe_eval_kitchen(expr) == shorthand_first(expr, try_unit_conversion(expr))

safe_eval_basic(expr) == parse_and_eval(Basic, expr, <<>>)

safe_eval(m, expr) == IF m = Kitchen THEN safe_eval_kitchen(expr) ELSE safe_eval_basic(expr)

\* The classes `except Exception` catches, among those the code can raise.
ExceptionSubclasses ==
    {"SyntaxError", "IndentationError", "ValueError", "NameError", "KeyError", "TypeError",
     "ZeroDivisionError", "OverflowError", "AttributeError"}

EntityId == "input_text.calculator_result"

\* call.hass.states.async_set(EntityId, state)
AsyncSet(state) ==
    [op |-> "async_set", entity_id |-> EntityId, state |-> state,
     key |-> "", value |-> NoValue, text |-> ""]
\* return {"result": value} or return {"error": text}
Return(key, value, text) ==
    [op |-> "return", entity_id |-> "", state |-> "", key |-> key, value |-> value, text |-> text]
\* an exception that leaves the handler
Propagate(kind, text) ==
    [op |-> "raise", entity_id |-> "", state |-> "", key |-> kind, value |-> NoValue, text |-> text]

\* the try statement with `except ValueError` in place of `except Exception`
respond_narrow(res) ==
    IF ~res.raised
    THEN <<AsyncSet(Str(res.value)), Return("result", res.value, "")>>
    ELSE IF res.kind = "ValueError"
    THEN <<AsyncSet("error: " \o res.msg), Return("error", NoValue, res.msg)>>
    ELSE <<Propagate(res.kind, res.msg)>>

\* the try statement whose except branch returns without the async_set
respond_silent(res) ==
    IF ~res.raised
    THEN <<AsyncSet(Str(res.value)), Return("result", res.value, "")>>
    ELSE <<Return("error", NoValue, res.msg)>>

\* the try statement of the handler, given what safe_eval returned or raised:
\* what the host sees, in order
respond(res) ==
    IF ~res.raised
    THEN <<AsyncSet(Str(res.value)), Return("result", res.value, "")>>
    ELSE IF res.kind \in ExceptionSubclasses
    THEN <<AsyncSet("error: " \o res.msg), Return("error", NoValue, res.msg)>>
    ELSE <<Propagate(res.kind, res.msg)>>

handle_calculate(m, expr) == respond(safe_eval(m, expr))


----------------------------------------------------------------------------
(* The inputs the specifications draw.                                     *)

Texts == {Corpus[i].text : i \in 1..Len(Corpus)}

\* what the entity may hold before the call
PriorStates == {"unknown", "4"}

Str_ml == StrV(<<"m", "l">>)
Str_L == StrV(<<"L">>)

Leaves ==
    {Constant(IntV(i)) : i \in 0..MaxLit}
    \cup {Constant(FloatV(1, 2)), Constant(Str_ml), Constant(Str_L)}
    \cup {Name(id) : id \in {"pi", "sqrt", "log", "convert", "foo"}}
    \cup {List(<<>>)}

BinaryOps == {"Add", "Sub", "Mult", "Div", "Pow", "Mod", "FloorDiv", "BitAnd"}
UnaryOps == {"USub", "UAdd", "Not", "Invert"}

ArgLists == {<<>>} \cup {<<a>> : a \in Leaves} \cup {<<a, b>> : a, b \in Leaves}
Callees == {n \in Leaves : n.tag = "Name"} \cup {Attribute(Name("os"), "system"), Constant(IntV(2))}
ConvertArgs ==
    {<<v, a, b>> :
        v \in {Constant(IntV(2)), Constant(FloatV(1, 2)), Constant(Str_ml), Name("foo")},
        a, b \in {Constant(Str_ml), Constant(Str_L), Constant(IntV(2)), Name("foo"), List(<<>>)}}

Level1 ==
    {BinOp(l, op, r) : l, r \in Leaves, op \in BinaryOps}
    \cup {UnaryOp(op, l) : op \in UnaryOps, l \in Leaves}
    \cup {Call(f, args) : f \in Callees, args \in ArgLists}
    \cup {Call(Name(f), args) : f \in {"convert", "sqrt"}, args \in ConvertArgs}
    \cup {Attribute(l, "system") : l \in Leaves}
    \cup {Compare(l, "Lt", r) : l, r \in Leaves}
    \cup {List(<<l>>) : l \in Leaves}

CoreLeaves == {Constant(IntV(0)), Constant(IntV(MaxLit)), Name("foo"), List(<<>>)}
Core ==
    Leaves
    \cup {BinOp(l, op, r) : l, r \in CoreLeaves, op \in {"Add", "Div", "FloorDiv"}}
    \cup {UnaryOp(op, l) : op \in {"USub", "UAdd"}, l \in CoreLeaves}
    \cup {Call(Name("sqrt"), <<l>>) : l \in CoreLeaves}

Level2 ==
    {BinOp(a, op, b) : a, b \in Core, op \in {"Add", "Div", "Pow", "FloorDiv"}}
    \cup {UnaryOp("USub", a) : a \in Level1}
    \cup {Call(Name(f), <<a, b>>) : f \in {"log", "foo"}, a, b \in Core}

Trees == Leaves \cup Level1 \cup Level2

UnitTexts ==
    DOMAIN VOL_ML \cup DOMAIN MASS_G
    \cup {<<"M", "L">>, <<"C", "u", "p", "s">>, <<"K", "G">>, <<"L", "b">>, <<"x">>, <<>>}
ConvertValues == {IntV(0), IntV(2), FloatV(5, 2)}
ConvertUnits == {StrV(u) : u \in UnitTexts} \cup {IntV(3)}

----------------------------------------------------------------------------
(* The specifications: each draws one call and carries it out.             *)

Pending == [pending |-> TRUE]

LastState(log, prior) ==
    LET sets == SelectSeq(log, LAMBDA ev : ev.op = "async_set")
    IN  IF sets = <<>> THEN prior ELSE sets[Len(sets)].state

\* the host calls the registered service handler
HandleCalculate ==
    /\ input.fn = "handle_calculate"
    /\ outcome = Pending
    /\ hostLog' = handle_calculate(input.module, input.expression)
    /\ slot' = LastState(hostLog', slot)
    /\ outcome' = hostLog'[Len(hostLog')]
    /\ UNCHANGED input

Init ==
    /\ input \in {[fn |-> "handle_calculate", module |-> m, expression |-> x] :
                    m \in Modules, x \in Texts}
    /\ outcome = Pending
    /\ slot \in PriorStates
    /\ hostLog = <<>>

Next == HandleCalculate

Spec == Init /\ [][Next]_vars

\* safe_eval on its own
Calculate ==
    /\ input.fn = "safe_eval"
    /\ outcome = Pending
    /\ outcome' = safe_eval(input.module, input.expression)
    /\ UNCHANGED <<input, slot, hostLog>>

InitCalc ==
    /\ input \in {[fn |-> "safe_eval", module |-> m, expression |-> x] :
                    m \in Modules, x \in Texts}
    /\ outcome = Pending
    /\ slot = "unknown"
    /\ hostLog = <<>>

NextCalc == Calculate

SpecCalc == InitCalc /\ [][NextCalc]_vars

\* _eval on its own
Evaluate ==
    /\ input.fn = "_eval"
    /\ outcome = Pending
    /\ outcome' = _eval(input.module, input.node)
    /\ UNCHANGED <<input, slot, hostLog>>

InitEval ==
    /\ input \in {[fn |-> "_eval", module |-> m, node |-> n] : m \in Modules, n \in Trees}
    /\ outcome = Pending
    /\ slot = "unknown"
    /\ hostLog = <<>>

NextEval == Evaluate

SpecEval == InitEval /\ [][NextEval]_vars

\* _convert on its own
Convert ==
    /\ input.fn = "_convert"
    /\ outcome = Pending
    /\ outcome' = _convert(input.val, input.from_u, input.to_u)
    /\ UNCHANGED <<input, slot, hostLog>>

InitConvert ==
    /\ input \in {[fn |-> "_convert", val |-> v, from_u |-> a, to_u |-> b] :
                    v \in ConvertValues, a, b \in ConvertUnits}
    /\ outcome = Pending
    /\ slot = "unknown"
    /\ hostLog = <<>>

NextConvert == Convert

SpecConvert == InitConvert /\ [][NextConvert]_vars


----------------------------------------------------------------------------
(* The claims about the service handler, under Spec.                       *)

Called == outcome # Pending

Positions(op) == {i \in 1..Len(hostLog) : hostLog[i].op = op}

\* C1: every call of handle_calculate with a string expression ends in exactly
\* one return, of {"result": value} or of {"error": message}, whatever stage
\* failed; no exception leaves the handler.
C1_HandlerAlwaysReturns ==
    Called =>
        /\ Positions("raise") = {}
        /\ Positions("return") = {Len(hostLog)}
        /\ outcome.op = "return"
        /\ outcome.key \in {"result", "error"}
        /\ outcome.key = "result" <=> ~safe_eval(input.module, input.expression).raised
        /\ outcome.key = "error" =>
               outcome.text = safe_eval(input.module, input.expression).msg

\* C1 witness: a failure of an operator inside evaluation, not a ValueError,
\* came back as {"error": "division by zero"}.
C1_Witness ==
    /\ Called
    /\ safe_eval(input.module, input.expression).raised
    /\ safe_eval(input.module, input.expression).kind = "ZeroDivisionError"
    /\ outcome = Return("error", NoValue, "division by zero")

\* C2: in every call the entity input_text.calculator_result is set exactly
\* once, before the return; after {"result": r} it holds str(r), after
\* {"error": m} it holds "error: " followed by m.
C2_SlotWrittenOnceAndAgrees ==
    Called =>
        /\ Cardinality(Positions("async_set")) = 1
        /\ \A i \in Positions("async_set") :
              /\ \A j \in Positions("return") : i < j
              /\ hostLog[i].entity_id = EntityId
              /\ slot = hostLog[i].state
        /\ outcome.key = "result" => slot = Str(outcome.value)
        /\ outcome.key = "error" => slot = "error: " \o outcome.text

\* C2 witness: a call that failed inside math.sqrt left the entity holding
\* the text of the error, set once and followed by the return.
C2_Witness ==
    /\ Called
    /\ outcome.key = "error"
    /\ outcome.text = "math domain error"
    /\ slot = "error: math domain error"
    /\ Len(hostLog) = 2

----------------------------------------------------------------------------
(* The claims about safe_eval ("calculate"), under SpecCalc.               *)

\* both names, lowercased, are keys of the same table
SameTable(from_s, to_s) ==
    \/ lower(from_s) \in DOMAIN VOL_ML /\ lower(to_s) \in DOMAIN VOL_ML
    \/ lower(from_s) \in DOMAIN MASS_G /\ lower(to_s) \in DOMAIN MASS_G

ConversionError(from_s, to_s) ==
    "Can't convert '" \o Flatten(from_s) \o "' to '" \o Flatten(to_s) \o "'"

Happened(tr, ev) == \E i \in 1..Len(tr) : tr[i] = ev
Evaluated(tr) == \E i \in 1..Len(tr) : tr[i].ev = "eval"
ParseCall == Invoke("ast.parse", <<>>)

\* C3: safe_eval of the kitchen module runs the shorthand recognizer first.
\* A text that matches with units of one table returns the conversion and is
\* never parsed; a text that matches with other units fails with the
\* conversion error and is never parsed or evaluated either; a text that does
\* not match goes to ast.parse right after the recognizer, which invoked no
\* conversion and raised nothing.
C3_ShorthandFirst ==
    (Called /\ input.module = Kitchen) =>
        LET mt == CONV_RE_match(input.expression)
            tr == outcome.trace
        IN  /\ tr # <<>> /\ tr[1] = Invoke("CONV_RE.match", <<>>)
            /\ (mt.matched /\ SameTable(mt.g2, mt.g3)) =>
                   /\ ~outcome.raised
                   /\ outcome.value = _convert(float(mt.g1), StrV(mt.g2), StrV(mt.g3)).value
                   /\ ~Happened(tr, ParseCall) /\ ~Evaluated(tr)
            /\ (mt.matched /\ ~SameTable(mt.g2, mt.g3)) =>
                   /\ outcome.raised
                   /\ outcome.kind = "ValueError"
                   /\ outcome.msg = ConversionError(mt.g2, mt.g3)
                   /\ ~Happened(tr, ParseCall) /\ ~Evaluated(tr)
            /\ ~mt.matched => (Len(tr) >= 2 /\ tr[2] = ParseCall)

\* C3 witness: "2 cups to g" matched, its units are of different tables, and
\* the conversion error came back without a parse.
C3_Witness ==
    /\ Called /\ input.module = Kitchen
    /\ input.expression = <<"2", " ", "c", "u", "p", "s", " ", "t", "o", " ", "g">>
    /\ outcome.raised /\ outcome.msg = "Can't convert 'cups' to 'g'"
    /\ Len(outcome.trace) = 2

\* C6: every successful result of safe_eval is a number (int or float).
C6_ResultIsNumber == (Called /\ ~outcome.raised) => IsReal(outcome.value)

\* C6, the failing input: the literal 'abc' comes back as the str it is.
C6_StringPassedThrough ==
    /\ Called
    /\ input.expression = <<"'", "a", "b", "c", "'">>
    /\ ~outcome.raised
    /\ outcome.value = StrV(<<"a", "b", "c">>)

\* C7: safe_eval never returns a float whose fractional part is zero, on the
\* shorthand path as on the arithmetic path.
C7_NoIntegralFloat == (Called /\ ~outcome.raised) => ~is_integer(outcome.value)

\* C7, the failing input: "2 l to ml" comes back as the float 2000.0.
C7_ShorthandKeepsFloat ==
    /\ Called /\ input.module = Kitchen
    /\ input.expression = <<"2", " ", "l", " ", "t", "o", " ", "m", "l">>
    /\ outcome.value = FloatV(2000, 1)

----------------------------------------------------------------------------
(* The claim about _convert, under SpecConvert.                            *)

Converted == Called /\ input.from_u.k = "str" /\ input.to_u.k = "str"

TableOf(from_s, to_s) ==
    IF lower(from_s) \in DOMAIN VOL_ML /\ lower(to_s) \in DOMAIN VOL_ML THEN VOL_ML ELSE MASS_G

\* value * scale(to) = val * scale(from), as exact quotients
ScaledBy(value, val, from_scale, to_scale) ==
    LET a == NumMul(value, to_scale)
        b == NumMul(val, from_scale)
    IN  Tracked(a) /\ Tracked(b) /\ a.n = b.n /\ a.d = b.d

\* C8: _convert of a number and two unit names returns a value exactly when
\* both names, lowercased, are keys of the same table, volume looked at before
\* mass; the value is the float val * TABLE[from] / TABLE[to]; in every other
\* case it raises ValueError("Can't convert '<from>' to '<to>'").
C8_ConvertSameTableOnly ==
    Converted =>
        LET f == input.from_u.s
            t == input.to_u.s
        IN  /\ ~outcome.raised <=> SameTable(f, t)
            /\ SameTable(f, t) =>
                   /\ outcome.value.k = "float"
                   /\ ScaledBy(outcome.value, input.val,
                               TableOf(f, t)[lower(f)], TableOf(f, t)[lower(t)])
            /\ ~SameTable(f, t) =>
                   /\ outcome.kind = "ValueError"
                   /\ outcome.msg = ConversionError(f, t)
                   /\ outcome.value = NoValue

\* C8 witness: 2.5 "Cups" to "ml", names that match only once lowercased,
\* gave 591.47.
C8_Witness ==
    /\ Converted
    /\ input.val = FloatV(5, 2)
    /\ input.from_u.s = <<"C", "u", "p", "s">> /\ input.to_u.s = <<"m", "l">>
    /\ outcome.value = FloatV(59147, 100)

----------------------------------------------------------------------------
(* The claims about _eval, under SpecEval.                                 *)

ClosedSet == {"Constant", "BinOp", "UnaryOp", "Name", "Call"}

UnsupportedText(m) ==
    IF m = Kitchen THEN "Unsupported node: " ELSE "Unsupported expression node: "

\* C4: _eval denies by default.  Wherever evaluation reaches a node that is
\* no Constant, BinOp, UnaryOp, Name or Call, it stops there: the outcome is
\* ValueError("Unsupported ... node: " + ast.dump(node)) and no value.
C4_DenyByDefault ==
    Called =>
        /\ outcome.trace # <<>> /\ outcome.trace[1] = Enter(input.node)
        /\ \A i \in 1..Len(outcome.trace) :
              LET ev == outcome.trace[i]
              IN  (ev.ev = "eval" /\ ev.node.tag \notin ClosedSet) =>
                      /\ i = Len(outcome.trace)
                      /\ outcome.raised
                      /\ outcome.kind = "ValueError"
                      /\ outcome.msg = UnsupportedText(input.module) \o dump(ev.node)
                      /\ outcome.value = NoValue

\* C4 witness: in 1 + [] the list display is reached as the right operand,
\* after the left one, and is what the failure describes.
C4_Witness ==
    /\ Called
    /\ input.node = BinOp(Constant(IntV(1)), "Add", List(<<>>))
    /\ Len(outcome.trace) = 3
    /\ outcome.kind = "ValueError"
    /\ outcome.msg = UnsupportedText(input.module) \o "List(elts=[], ctx=Load())"

\* the identifiers an expression may use
Whitelist(m) ==
    {"pi", "e", "tau", "sin", "cos", "tan", "asin", "acos", "atan",
     "sqrt", "log", "log10", "log2", "exp"}
    \cup (IF m = Kitchen THEN {"convert"} ELSE {})

NameErrorText(m, id) == IF m = Kitchen THEN id ELSE "Use of name '" \o id \o "' is not allowed"

RECURSIVE Mentions(_, _), AnyMentions(_, _)
\* the tree refers to an identifier outside the whitelist somewhere
Mentions(m, node) ==
    IF node.tag = "Name" THEN node.id \notin Whitelist(m)
    ELSE IF node.tag \in {"BinOp", "Compare"}
    THEN Mentions(m, node.left) \/ Mentions(m, node.right)
    ELSE IF node.tag = "UnaryOp" THEN Mentions(m, node.operand)
    ELSE IF node.tag = "Call" THEN Mentions(m, node.func) \/ AnyMentions(m, node.args)
    ELSE IF node.tag = "Attribute" THEN Mentions(m, node.value)
    ELSE IF node.tag = "List" THEN AnyMentions(m, node.elts)
    ELSE FALSE

AnyMentions(m, nodes) ==
    nodes # <<>> /\ (Mentions(m, Head(nodes)) \/ AnyMentions(m, Tail(nodes)))

Invoked(tr) == \E i \in 1..Len(tr) : tr[i].ev = "invoke"

\* C5 as stated, for the module whose whitelist the claim lists: every
\* expression that refers to an identifier outside the whitelist, the base of
\* an attribute call included, fails with NameError, and no callable is
\* invoked.
C5_UnknownIdentifierIsNameError ==
    (Called /\ input.module = Kitchen /\ Mentions(Kitchen, input.node)) =>
        /\ outcome.raised
        /\ outcome.kind = "NameError"
        /\ ~Invoked(outcome.trace)

\* C5 as amended: an evaluation that reaches a Name outside the whitelist
\* stops there with NameError for that identifier, nothing being invoked
\* afterwards; a call through an attribute, as os.system('x'), fails with the
\* ValueError for the Attribute node before its base name is looked up and
\* before any argument is evaluated, and invokes nothing.
C5_NameErrorWhereReached ==
    Called =>
        /\ \A i \in 1..Len(outcome.trace) :
              LET ev == outcome.trace[i]
              IN  (ev.ev = "eval" /\ ev.node.tag = "Name"
                   /\ ev.node.id \notin Whitelist(input.module)) =>
                      /\ i = Len(outcome.trace)
                      /\ outcome.raised
                      /\ outcome.kind = "NameError"
                      /\ outcome.msg = NameErrorText(input.module, ev.node.id)
        /\ (input.node.tag = "Name" /\ input.node.id \notin Whitelist(input.module)) =>
               outcome.trace = <<Enter(input.node)>>
        /\ (input.node.tag = "Call" /\ input.node.func.tag = "Attribute") =>
               /\ outcome.raised
               /\ outcome.kind = "ValueError"
               /\ outcome.msg = UnsupportedText(input.module) \o dump(input.node.func)
               /\ outcome.trace = <<Enter(input.node), Enter(input.node.func)>>

\* C5 witness: os.system(foo) ended on the Attribute node; neither os nor
\* foo was looked up.
C5_Witness ==
    /\ Called
    /\ input.node = Call(Attribute(Name("os"), "system"), <<Name("foo")>>)
    /\ outcome.kind = "ValueError"
    /\ Len(outcome.trace) = 2

SameFailure(o, sub) == o.raised /\ o.kind = sub.kind /\ o.msg = sub.msg

\* tr from position i on begins with part
BeginsAt(tr, i, part) ==
    Len(tr) >= i - 1 + Len(part) /\ SubSeq(tr, i, i - 1 + Len(part)) = part

\* the arguments before position i evaluate, the one at i fails
FirstFailing(m, args, i) ==
    /\ _eval(m, args[i]).raised
    /\ \A j \in 1..(i - 1) : ~_eval(m, args[j]).raised

\* C9: the order of evaluation fixes the failure reported.  In a BinOp the
\* left operand is evaluated before the right one, and when both would fail
\* the failure is the left one's.  In a Call the callee is evaluated before
\* the arguments and these from left to right: a failing callee is reported
\* before any failing argument, and of two failing arguments the earlier.
C9_FirstFailureReported ==
    Called =>
        LET m == input.module
            node == input.node
            tr == outcome.trace
        IN  /\ node.tag = "BinOp" =>
                LET l == _eval(m, node.left)
                    r == _eval(m, node.right)
                IN  /\ (l.raised /\ r.raised) => SameFailure(outcome, l)
                    /\ Len(tr) > 1 => BeginsAt(tr, 2, l.trace)
                    /\ (Len(tr) > 1 /\ ~l.raised) => BeginsAt(tr, 2 + Len(l.trace), r.trace)
            /\ node.tag = "Call" =>
                LET f == _eval(m, node.func)
                IN  /\ BeginsAt(tr, 2, f.trace)
                    /\ (f.raised /\ \E i \in 1..Len(node.args) : _eval(m, node.args[i]).raised)
                           => SameFailure(outcome, f)
                    /\ ~f.raised =>
                           \A i \in 1..Len(node.args) :
                               (FirstFailing(m, node.args, i)
                                /\ \E j \in (i + 1)..Len(node.args) :
                                       _eval(m, node.args[j]).raised)
                                   => SameFailure(outcome, _eval(m, node.args[i]))

\* C9, the failing input: foo // [] reports the operator's KeyError; neither
\* operand was evaluated, so the NameError of foo, first in order, is lost.
C9_OperatorLookedUpFirst ==
    /\ Called
    /\ input.node = BinOp(Name("foo"), "FloorDiv", List(<<>>))
    /\ outcome.kind = "KeyError"
    /\ outcome.trace = <<Enter(input.node)>>

Permitted(tag) ==
    IF tag = "BinOp" THEN {"Add", "Sub", "Mult", "Div", "Pow", "Mod"} ELSE {"USub"}

\* C10: a BinOp or UnaryOp whose operator is none of add, subtract,
\* multiply, true division, power, modulo and unary minus fails with the
\* ValueError of unsupported expressions, and yields no value.
C10_UnsupportedOperatorError ==
    (Called /\ input.node.tag \in {"BinOp", "UnaryOp"}
            /\ input.node.op \notin Permitted(input.node.tag)) =>
        /\ outcome.raised
        /\ outcome.value = NoValue
        /\ outcome.kind = "ValueError"

\* C10, the failing input: 2 // 1 ends in KeyError(<class 'ast.FloorDiv'>).
C10_KeyErrorForOperator ==
    /\ Called
    /\ input.node = BinOp(Constant(IntV(2)), "FloorDiv", Constant(IntV(1)))
    /\ outcome.kind = "KeyError"
    /\ outcome.msg = "<class 'ast.FloorDiv'>"

=============================================================================
